---- MODULE Spec2Model ----
(***************************************************************************)
(* Model of src/src/song_search.py: the expanded query search that reports *)
(* which share of an artist's songs contains words related to a search     *)
(* term.  Texts, artist names and search terms are sequences of one-       *)
(* character strings, so that lowercasing, stripping, regular-expression   *)
(* matching and string formatting are computed character by character.     *)
(***************************************************************************)
EXTENDS Integers, Sequences, FiniteSets

VARIABLES
    pc,                   \* position of the running function
    df,                   \* query_search: the catalog, rows of [artist, text]
    artist,               \* query_search: the requested artist
    model,                \* query_search: the embedding provider's answer
    search_term,          \* query_search: the search term
    cleaned_text,         \* artist_df['cleaned_text'], filled by filter_and_clean
    similar_words_tolist, \* calc_percentages: the expansion list
    texts_w_words,        \* calc_percentages: songs seen with count > 0
    song_i,               \* calc_percentages: songs the for loop has handled
    result,               \* query_search: the value calc_percentages returned
    stdout,               \* the message printed before sys.exit()
    out_files,            \* files written under out/
    provider_calls,       \* number of model.most_similar calls made
    raw,                  \* preprocess: one raw song text
    once,                 \* preprocess applied to raw
    twice,                \* preprocess applied to once
    m_song,               \* find_word_matches: argument song
    m_words,              \* find_word_matches: argument similar_words
    word_i,               \* find_word_matches: words the for loop has handled
    word_count,           \* find_word_matches: local word_count
    p_songs,              \* per-song steps in any order: the cleaned songs
    p_words,              \* per-song steps in any order: the expansion list
    pending,              \* per-song steps in any order: songs not yet handled
    p_tally               \* per-song steps in any order: texts_w_words

pipeVars == <<df, artist, model, search_term, cleaned_text, similar_words_tolist,
              texts_w_words, song_i, result, stdout, out_files, provider_calls>>
normVars == <<raw, once, twice>>
matchVars == <<m_song, m_words, word_i, word_count>>
permVars == <<p_songs, p_words, pending, p_tally>>
vars == <<pc, pipeVars, normVars, matchVars, permVars>>

None == "None"

----------------------------------------------------------------------------
(* Bounds of the checked instances.                                        *)

MaxRows == 3        \* rows of a generated catalog
MaxLen == 3         \* characters of a generated raw text
MaxSongLen == 4     \* characters of a generated cleaned song
MaxWords == 2       \* entries of a generated expansion list
MaxSongs == 3       \* songs of a generated cleaned column

----------------------------------------------------------------------------
(* Characters and strings.                                                 *)

SeqsUpTo(S, n) == UNION {[1..k -> S] : k \in 0..n}

Min(a, b) == IF a < b THEN a ELSE b

LowerLetters == <<"a", "b", "c", "d", "e", "f", "g", "h", "i", "j", "k", "l", "m",
                 "n", "o", "p", "q", "r", "s", "t", "u", "v", "w", "x", "y", "z">>

UpperLetters == <<"A", "B", "C", "D", "E", "F", "G", "H", "I", "J", "K", "L", "M",
                 "N", "O", "P", "Q", "R", "S", "T", "U", "V", "W", "X", "Y", "Z">>

DigitChars == <<"0", "1", "2", "3", "4", "5", "6", "7", "8", "9">>

Range(s) == {s[k] : k \in 1..Len(s)}

\* \w of a str pattern: letters, digits and the underscore.
IsWordChar(c) ==
    c \in Range(LowerLetters) \cup Range(UpperLetters) \cup Range(DigitChars) \cup {"_"}

\* \s of a str pattern (the whitespace characters the texts here use).
IsSpaceChar(c) == c \in {" ", "\n", "\t"}

\* str.lower() on one character.
LowerChar(c) ==
    IF c \in Range(UpperLetters)
    THEN LowerLetters[CHOOSE k \in 1..Len(UpperLetters) : UpperLetters[k] = c]
    ELSE c

Lower(s) == [k \in 1..Len(s) |-> LowerChar(s[k])]

RECURSIVE Filter(_, _)
\* The characters of s that are in the set keep, in order.
Filter(s, keep) ==
    IF s = <<>> THEN <<>>
    ELSE IF Head(s) \in keep THEN <<Head(s)>> \o Filter(Tail(s), keep)
    ELSE Filter(Tail(s), keep)

----------------------------------------------------------------------------
(* preprocess: lowercase, drop "\n", drop what is neither \w nor \s.       *)

\* text_lower.replace("\n", "")
RemoveLineBreaks(s) == Filter(s, Range(s) \ {"\n"})

\* re.sub(r'[^\w\s]', '', text), with count = 1: only the first is removed.
RECURSIVE StripFirstPunctuation(_)
StripFirstPunctuation(s) ==
    IF s = <<>> THEN <<>>
    ELSE IF ~(IsWordChar(Head(s)) \/ IsSpaceChar(Head(s))) THEN Tail(s)
    ELSE <<Head(s)>> \o StripFirstPunctuation(Tail(s))

\* re.sub(r'[^\w\s]', '', text)
StripPunctuation(s) ==
    Filter(s, {c \in Range(s) : IsWordChar(c) \/ IsSpaceChar(c)})

\* The body of preprocess's for loop, for one song.
CleanSong(song) == StripPunctuation(RemoveLineBreaks(Lower(song)))

preprocess(text_column) ==
    [k \in 1..Len(text_column) |-> CleanSong(text_column[k])]

----------------------------------------------------------------------------
(* re.findall(r'\b' + word + r'\b', song).  The word is spliced into the   *)
(* pattern unescaped, so its characters are pattern elements: "." matches  *)
(* any character but a line break, an unclosed "(" makes re.compile raise  *)
(* re.error, every other character used here stands for itself.            *)

\* Whether the character at position j of s exists and is a \w character.
IsWordAt(s, j) == j \in 1..Len(s) /\ IsWordChar(s[j])

\* \b between positions i-1 and i of s.
WordBoundary(s, i) == IsWordAt(s, i - 1) # IsWordAt(s, i)

\* One pattern element against one character of the song.
ElemMatches(p, c) == IF p = "." THEN c # "\n" ELSE p = c

\* Whether the pattern compiles.
PatternCompiles(word) == "(" \notin Range(word)

\* Whether the pattern matches the song from position i on.
MatchAt(song, word, i) ==
    /\ i + Len(word) - 1 <= Len(song)
    /\ WordBoundary(song, i)
    /\ \A k \in 1..Len(word) : ElemMatches(word[k], song[i + k - 1])
    /\ WordBoundary(song, i + Len(word))

RECURSIVE FindAllFrom(_, _, _)
\* len(re.findall(...)): the scan for non-overlapping matches, leftmost first.
FindAllFrom(song, word, i) ==
    IF i > Len(song) + 1 THEN 0
    ELSE IF MatchAt(song, word, i)
         THEN 1 + FindAllFrom(song, word, i + (IF Len(word) = 0 THEN 1 ELSE Len(word)))
         ELSE FindAllFrom(song, word, i + 1)

FindAll(song, word) == FindAllFrom(song, word, 1)

\* find_word_matches raises re.error at the first word whose pattern is bad.
FindWordMatchesRaises(similar_words) ==
    \E k \in 1..Len(similar_words) : ~PatternCompiles(similar_words[k])

RECURSIVE find_word_matches(_, _)
\* word_count after the for loop over similar_words.
find_word_matches(song, similar_words) ==
    IF similar_words = <<>> THEN 0
    ELSE FindAll(song, Head(similar_words))
         + find_word_matches(song, Tail(similar_words))

----------------------------------------------------------------------------
(* find_word_matches called on its own, one loop iteration per step.       *)

SongChars == {"a", "b", " "}

Word_a == <<"a">>
Word_ab == <<"a", "b">>
Word_b == <<"b">>
Word_dot == <<".">>
Word_paren == <<"(">>

WordPool == {Word_a, Word_ab, Word_b, Word_dot, Word_paren}

pipeIdle ==
    /\ df = <<>> /\ artist = <<>> /\ model = None /\ search_term = <<>>
    /\ cleaned_text = <<>> /\ similar_words_tolist = <<>> /\ texts_w_words = 0
    /\ song_i = 0 /\ result = None /\ stdout = None /\ out_files = {}
    /\ provider_calls = 0

normIdle == raw = <<>> /\ once = None /\ twice = None

matchIdle == m_song = <<>> /\ m_words = <<>> /\ word_i = 0 /\ word_count = 0

permIdle == p_songs = <<>> /\ p_words = <<>> /\ pending = {} /\ p_tally = 0

InitMatch ==
    /\ pc = "find_word_matches"
    /\ m_song \in SeqsUpTo(SongChars, MaxSongLen)
    /\ m_words \in SeqsUpTo(WordPool, MaxWords)
    /\ word_i = 0
    /\ word_count = 0
    /\ pipeIdle /\ normIdle /\ permIdle

\* One iteration of "for word in similar_words".
MatchWord ==
    /\ pc = "find_word_matches"
    /\ word_i < Len(m_words)
    /\ PatternCompiles(m_words[word_i + 1])
    /\ word_count' = word_count + FindAll(m_song, m_words[word_i + 1])
    /\ word_i' = word_i + 1
    /\ UNCHANGED <<pc, m_song, m_words, pipeVars, normVars, permVars>>

\* re.findall raises on a pattern that does not compile.
MatchWordRaises ==
    /\ pc = "find_word_matches"
    /\ word_i < Len(m_words)
    /\ ~PatternCompiles(m_words[word_i + 1])
    /\ pc' = "re.error"
    /\ UNCHANGED <<matchVars, pipeVars, normVars, permVars>>

\* return word_count
MatchReturn ==
    /\ pc = "find_word_matches"
    /\ word_i = Len(m_words)
    /\ pc' = "matched"
    /\ UNCHANGED <<matchVars, pipeVars, normVars, permVars>>

NextMatch == MatchWord \/ MatchWordRaises \/ MatchReturn

SpecMatch == InitMatch /\ [][NextMatch]_vars

----------------------------------------------------------------------------
(* preprocess called on one raw text, then on its own output.              *)

RawChars == {"a", "A", " ", "\n", ",", "\t"}

InitNorm ==
    /\ pc = "preprocess"
    /\ raw \in SeqsUpTo(RawChars, MaxLen)
    /\ once = None
    /\ twice = None
    /\ pipeIdle /\ matchIdle /\ permIdle

NormalizeOnce ==
    /\ pc = "preprocess"
    /\ once' = preprocess(<<raw>>)[1]
    /\ pc' = "preprocessed"
    /\ UNCHANGED <<raw, twice, pipeVars, matchVars, permVars>>

NormalizeAgain ==
    /\ pc = "preprocessed"
    /\ twice' = preprocess(<<once>>)[1]
    /\ pc' = "preprocessed twice"
    /\ UNCHANGED <<raw, once, pipeVars, matchVars, permVars>>

NextNorm == NormalizeOnce \/ NormalizeAgain

SpecNorm == InitNorm /\ [][NextNorm]_vars

----------------------------------------------------------------------------
(* Inputs of query_search.                                                 *)

ABBA == <<"A", "B", "B", "A">>

abba == <<"a", "b", "b", "a">>

Queen == <<"Q", "u", "e", "e", "n">>

TestArtist == <<"T", "e", "s", "t", "A", "r", "t", "i", "s", "t">>

love == <<"l", "o", "v", "e">>

adore == <<"a", "d", "o", "r", "e">>

cherish == <<"c", "h", "e", "r", "i", "s", "h">>

Text_ILoveYou == <<"I", " ", "L", "O", "V", "E", "\n", "y", "o", "u">>

Text_LoveLove == <<"L", "o", "v", "e", ",", " ", "l", "o", "v", "e">>

Text_Gloves == <<"G", "l", "o", "v", "e", "s">>

Text_WeAdore == <<"W", "e", " ", "a", "d", "o", "r", "e", ".">>

Text_Shoveling == <<"s", "h", "o", "v", "e", "l", "i", "n", "g">>

ExpectedName ==
    <<"o", "u", "t", "/", "T", "e", "s", "t", "A", "r", "t", "i", "s", "t",
      "_", "l", "o", "v", "e", ".", "t", "x", "t">>

ExpectedDisplay ==
    <<"5", "0", ".", "0", "%", " ", "o", "f", " ", "T", "e", "s", "t", "A",
      "r", "t", "i", "s", "t", "'", "s", " ", "s", "o", "n", "g", "s", " ",
      "c", "o", "n", "t", "a", "i", "n", " ", "w", "o", "r", "d", "s", " ",
      "r", "e", "l", "a", "t", "e", "d", " ", "t", "o", " ", "'", "l", "o",
      "v", "e", "'">>

Lit_PercentOf == <<"%", " ", "o", "f", " ">>

Lit_SongsContain ==
    <<"'", "s", " ", "s", "o", "n", "g", "s", " ", "c", "o", "n", "t", "a",
      "i", "n", " ", "w", "o", "r", "d", "s", " ", "r", "e", "l", "a", "t",
      "e", "d", " ", "t", "o", " ", "'">>

Lit_Quote == <<"'">>

Lit_Txt == <<".", "t", "x", "t">>

Lit_Out == <<"o", "u", "t", "/">>

\* A row of the catalog: the columns 'artist' and 'text'.
Row(a, t) == [artist |-> a, text |-> t]

CatalogArtists == {ABBA, Queen}

CatalogTexts == {Text_ILoveYou, Text_LoveLove, Text_Gloves}

CatalogRows == {Row(a, t) : a \in CatalogArtists, t \in CatalogTexts}

\* Four songs by TestArtist, two of which hold "love" or "adore".
TestCatalog ==
    <<Row(TestArtist, Text_LoveLove), Row(TestArtist, Text_Gloves),
      Row(TestArtist, Text_WeAdore), Row(TestArtist, Text_Shoveling)>>

Catalogs == SeqsUpTo(CatalogRows, MaxRows) \cup {TestCatalog}

RequestedArtists == {ABBA, abba, TestArtist}

SearchTerms == {love, Word_dot, Word_paren}

\* topn of model.most_similar(search_term, topn=10)
Topn == 10

\* What the provider holds for the search term: a ranking of (word, score)
\* pairs, scores in hundredths, or the exception its lookup raises.
Ranking(r) == [kind |-> "ok", ranking |-> r]

Failing(e) == [kind |-> e, ranking |-> <<>>]

ShortRanking == <<<<adore, 90>>, <<cherish, 80>>>>

\* More neighbours than topn asks for.
LongRanking == [k \in 1..(Topn + 2) |-> <<<<LowerLetters[k]>>, 100 - k>>]

Providers ==
    {Ranking(ShortRanking), Ranking(LongRanking), Failing("KeyError"),
     Failing("RuntimeError")}

\* gensim's most_similar: the topn best (word, score) pairs.
most_similar(m, topn) == SubSeq(m.ranking, 1, Min(topn, Len(m.ranking)))

----------------------------------------------------------------------------
(* filter_and_clean                                                        *)

\* df[(df['artist'] == artist)] with the comparison done on lowercased names.
FilterRowsNoCase(d, a) == SelectSeq(d, LAMBDA row : Lower(row.artist) = Lower(a))

\* df[(df['artist'] == artist)]
FilterRows(d, a) == SelectSeq(d, LAMBDA row : row.artist = a)

\* artist_df['text']
TextColumn(rows) == [k \in 1..Len(rows) |-> rows[k].text]

----------------------------------------------------------------------------
(* calc_percentages                                                        *)

\* "except KeyError:" in place of the bare "except:".
CatchesKeyErrorOnly(exc) == exc = "KeyError"

\* The bare "except:" catches whatever most_similar raises.
Catches(exc) == TRUE

\* similar_words_tolist.insert(0, search_term) in place of append.
ExpansionListPrepend(similar_words, term) ==
    <<term>> \o [k \in 1..Len(similar_words) |-> similar_words[k][1]]

\* [word[0] for word in similar_words], then append(search_term)
ExpansionList(similar_words, term) ==
    Append([k \in 1..Len(similar_words) |-> similar_words[k][1]], term)

\* The loop body with the tally reset on a song without a match.
LoopBodyReset(tally, song, words) ==
    IF find_word_matches(song, words) > 0 THEN tally + 1 ELSE 0

\* The body of "for song in cleaned_text_column".
LoopBody(tally, song, words) ==
    IF find_word_matches(song, words) > 0 THEN tally + 1 ELSE tally

RECURSIVE TallyFrom(_, _, _, _)
\* texts_w_words after the for loop has run over the column from song k on.
TallyFrom(column, words, k, tally) ==
    IF k > Len(column) THEN tally
    ELSE TallyFrom(column, words, k + 1, LoopBody(tally, column[k], words))

\* Names that resolve inside calc_percentages: its locals, the module's
\* globals and the builtins.
CalcLocals ==
    {"model", "search_term", "cleaned_text_column", "similar_words",
     "similar_words_tolist", "texts_w_words", "song", "count", "percentage"}

ModuleGlobals ==
    {"gensim", "api", "os", "pd", "string", "re", "argparse", "sys",
     "argument_parser", "preprocess", "filter_and_clean", "find_word_matches",
     "calc_percentages", "save_result", "query_search", "main"}

Builtins == {"len", "round", "open", "print", "vars"}

Resolves(name) == name \in CalcLocals \cup ModuleGlobals \cup Builtins

----------------------------------------------------------------------------
(* save_result                                                             *)

RECURSIVE Digits(_)
\* str() of a natural number.
Digits(n) ==
    IF n < 10 THEN <<DigitChars[n + 1]>>
    ELSE Digits(n \div 10) \o <<DigitChars[(n % 10) + 1]>>

\* round(percentage, 2), in hundredths: the nearest, ties to the even one.
RoundHundredths(p) ==
    LET n == 100 * p.num
        q == n \div p.den
        r == n % p.den
    IN  IF 2 * r < p.den THEN q
        ELSE IF 2 * r > p.den THEN q + 1
        ELSE IF q % 2 = 0 THEN q ELSE q + 1

\* repr of the float (h / 100) * 100: the product is not a whole number for
\* eight of the values 0.00 .. 1.00.
PercentRepr(h) ==
    CASE
         h = 7 -> <<"7", ".", "0", "0", "0", "0", "0", "0", "0", "0", "0", "0", "0", "0", "0", "0", "1">>
      [] h = 14 -> <<"1", "4", ".", "0", "0", "0", "0", "0", "0", "0", "0", "0", "0", "0", "0", "0", "0", "2">>
      [] h = 28 -> <<"2", "8", ".", "0", "0", "0", "0", "0", "0", "0", "0", "0", "0", "0", "0", "0", "0", "4">>
      [] h = 29 -> <<"2", "8", ".", "9", "9", "9", "9", "9", "9", "9", "9", "9", "9", "9", "9", "9", "9", "6">>
      [] h = 55 -> <<"5", "5", ".", "0", "0", "0", "0", "0", "0", "0", "0", "0", "0", "0", "0", "0", "1">>
      [] h = 56 -> <<"5", "6", ".", "0", "0", "0", "0", "0", "0", "0", "0", "0", "0", "0", "0", "0", "1">>
      [] h = 57 -> <<"5", "6", ".", "9", "9", "9", "9", "9", "9", "9", "9", "9", "9", "9", "9", "9", "9">>
      [] h = 58 -> <<"5", "7", ".", "9", "9", "9", "9", "9", "9", "9", "9", "9", "9", "9", "9", "9", "9">>
      [] OTHER -> Digits(h) \o <<".", "0">>

\* The result string and the path of the file save_result writes.
ResultString(p, a, term) ==
    PercentRepr(RoundHundredths(p)) \o Lit_PercentOf \o a \o Lit_SongsContain
        \o term \o Lit_Quote

OutPath(a, term) == Lit_Out \o a \o <<"_">> \o term \o Lit_Txt

save_result(p, a, term) == [path |-> OutPath(a, term), content |-> ResultString(p, a, term)]

----------------------------------------------------------------------------
(* query_search: filter_and_clean, then calc_percentages, then save_result *)

Init ==
    /\ pc = "query_search"
    /\ df \in Catalogs
    /\ artist \in RequestedArtists
    /\ model \in Providers
    /\ search_term \in SearchTerms
    /\ cleaned_text = <<>>
    /\ similar_words_tolist = <<>>
    /\ texts_w_words = 0
    /\ song_i = 0
    /\ result = None
    /\ stdout = None
    /\ out_files = {}
    /\ provider_calls = 0
    /\ normIdle /\ matchIdle /\ permIdle

\* filter_and_clean, artist_df.empty: print the error and sys.exit().
FilterAndCleanExit ==
    /\ pc = "query_search"
    /\ FilterRows(df, artist) = <<>>
    /\ stdout' = [error |-> "Songs by artist are not available", names |-> artist]
    /\ pc' = "ArtistNotFound"
    /\ UNCHANGED <<df, artist, model, search_term, cleaned_text,
                   similar_words_tolist, texts_w_words, song_i, result,
                   out_files, provider_calls, normVars, matchVars, permVars>>

\* filter_and_clean, else branch: preprocess the artist's texts, return.
FilterAndClean ==
    /\ pc = "query_search"
    /\ FilterRows(df, artist) # <<>>
    /\ cleaned_text' = preprocess(TextColumn(FilterRows(df, artist)))
    /\ pc' = "calc_percentages"
    /\ UNCHANGED <<df, artist, model, search_term, similar_words_tolist,
                   texts_w_words, song_i, result, stdout, out_files,
                   provider_calls, normVars, matchVars, permVars>>

\* calc_percentages, most_similar raises: the except clause prints the
\* error and exits; an exception it does not catch leaves calc_percentages.
MostSimilarRaises ==
    /\ pc = "calc_percentages"
    /\ model.kind # "ok"
    /\ provider_calls' = provider_calls + 1
    /\ IF Catches(model.kind)
       THEN /\ stdout' = [error |-> "Search term is not available", names |-> <<>>]
            /\ pc' = "OutOfVocabulary"
       ELSE /\ stdout' = stdout
            /\ pc' = "uncaught"
    /\ UNCHANGED <<df, artist, model, search_term, cleaned_text,
                   similar_words_tolist, texts_w_words, song_i, result,
                   out_files, normVars, matchVars, permVars>>

\* calc_percentages, most_similar returns: build the list of words and
\* initialise the tally.
MostSimilar ==
    /\ pc = "calc_percentages"
    /\ model.kind = "ok"
    /\ provider_calls' = provider_calls + 1
    /\ similar_words_tolist' = ExpansionList(most_similar(model, Topn), search_term)
    /\ texts_w_words' = 0
    /\ pc' = "for song"
    /\ UNCHANGED <<df, artist, model, search_term, cleaned_text, song_i,
                   result, stdout, out_files, normVars, matchVars, permVars>>

\* One iteration of "for song in cleaned_text_column".
MatchSong ==
    /\ pc = "for song"
    /\ song_i < Len(cleaned_text)
    /\ ~FindWordMatchesRaises(similar_words_tolist)
    /\ texts_w_words' = LoopBody(texts_w_words, cleaned_text[song_i + 1],
                                 similar_words_tolist)
    /\ song_i' = song_i + 1
    /\ UNCHANGED <<pc, df, artist, model, search_term, cleaned_text,
                   similar_words_tolist, result, stdout, out_files,
                   provider_calls, normVars, matchVars, permVars>>

\* find_word_matches raises re.error, which nothing catches.
MatchSongRaises ==
    /\ pc = "for song"
    /\ song_i < Len(cleaned_text)
    /\ FindWordMatchesRaises(similar_words_tolist)
    /\ pc' = "re.error"
    /\ UNCHANGED <<pipeVars, normVars, matchVars, permVars>>

\* percentage = texts_w_words / len(text_column): text_column is no local
\* of calc_percentages, no global of the module and no builtin, so the
\* lookup raises NameError; calc_percentages never reaches its return.
Percentage ==
    /\ pc = "for song"
    /\ song_i = Len(cleaned_text)
    /\ ~Resolves("text_column")
    /\ pc' = "NameError"
    /\ UNCHANGED <<pipeVars, normVars, matchVars, permVars>>

\* query_search has no step after calc_percentages: line 219 runs only when
\* calc_percentages returns.
Next ==
    \/ FilterAndCleanExit
    \/ FilterAndClean
    \/ MostSimilarRaises
    \/ MostSimilar
    \/ MatchSong
    \/ MatchSongRaises
    \/ Percentage

Spec == Init /\ [][Next]_vars

\* The run has ended: by sys.exit(), by an exception or by returning.
Terminated ==
    pc \in {"ArtistNotFound", "OutOfVocabulary", "uncaught", "re.error",
            "NameError", "saved"}

----------------------------------------------------------------------------
(* save_result called on its own.                                          *)

MaxDen == 7         \* songs of the artist in a generated percentage

Fractions == {[num |-> k, den |-> n] : k \in 0..MaxDen, n \in 1..MaxDen}

InitSave ==
    /\ pc = "save_result"
    /\ result \in {p \in Fractions : p.num <= p.den}
    /\ artist \in RequestedArtists
    /\ search_term \in SearchTerms
    /\ df = <<>> /\ model = None /\ cleaned_text = <<>>
    /\ similar_words_tolist = <<>> /\ texts_w_words = 0 /\ song_i = 0
    /\ stdout = None /\ out_files = {} /\ provider_calls = 0
    /\ normIdle /\ matchIdle /\ permIdle

\* save_result: open(out_path, 'w') and write the result string.
SaveResult ==
    /\ pc = "save_result"
    /\ out_files' = out_files \cup {save_result(result, artist, search_term)}
    /\ pc' = "saved"
    /\ UNCHANGED <<df, artist, model, search_term, cleaned_text,
                   similar_words_tolist, texts_w_words, song_i, result, stdout,
                   provider_calls, normVars, matchVars, permVars>>

NextSave == SaveResult

SpecSave == InitSave /\ [][NextSave]_vars

----------------------------------------------------------------------------
(* The per-song steps of calc_percentages taken in any order.              *)

Song_a == <<"a">>
Song_b == <<"b">>
Song_a_b == <<"a", " ", "b">>
Song_ba == <<"b", "a">>

SongPool == {Song_a, Song_b, Song_a_b, Song_ba}

PermWordPool == {Word_a, Word_ab, Word_dot}

InitPerm ==
    /\ pc = "for song"
    /\ p_songs \in SeqsUpTo(SongPool, MaxSongs)
    /\ p_words \in SeqsUpTo(PermWordPool, MaxWords)
    /\ pending = 1..Len(p_songs)
    /\ p_tally = 0
    /\ pipeIdle /\ normIdle /\ matchIdle

\* The loop body applied to any song not yet handled.
PermStep ==
    /\ pc = "for song"
    /\ \E k \in pending :
        /\ p_tally' = LoopBody(p_tally, p_songs[k], p_words)
        /\ pending' = pending \ {k}
    /\ UNCHANGED <<pc, p_songs, p_words, pipeVars, normVars, matchVars>>

\* Line 162 after the last song.
PermPercentage ==
    /\ pc = "for song"
    /\ pending = {}
    /\ ~Resolves("text_column")
    /\ pc' = "NameError"
    /\ UNCHANGED <<pipeVars, normVars, matchVars, permVars>>

NextPerm == PermStep \/ PermPercentage

SpecPerm == InitPerm /\ [][NextPerm]_vars

----------------------------------------------------------------------------
(* The statements checked.                                                 *)

\* Songs of the cleaned column in which the expansion list has a match.
MatchedSongs ==
    {k \in 1..Len(cleaned_text) :
        find_word_matches(cleaned_text[k], similar_words_tolist) > 0}

\* Whether the catalog has a row whose artist is exactly the requested one.
ArtistPresent == \E k \in 1..Len(df) : df[k].artist = artist

\* Occurrences of w in song as a whole word: the characters of w, with a
\* non-word character or a string edge on either side.
WholeWordOccurrences(song, w) ==
    Cardinality({i \in 1..Len(song) :
        /\ i + Len(w) - 1 <= Len(song)
        /\ SubSeq(song, i, i + Len(w) - 1) = w
        /\ ~IsWordAt(song, i - 1)
        /\ ~IsWordAt(song, i + Len(w))})

RECURSIVE SumOccurrences(_, _)
\* The sum over the entries of the list, each taken as often as it is listed.
SumOccurrences(song, words) ==
    IF words = <<>> THEN 0
    ELSE WholeWordOccurrences(song, Head(words)) + SumOccurrences(song, Tail(words))

\* C1: every run of query_search ends in ArtistNotFound, in OutOfVocabulary
\* or in success, and a run whose artist has rows and whose provider returns
\* neighbours ends in success, with a result computed and saved.
C1_ThreeOutcomes ==
    Terminated =>
        /\ pc \in {"ArtistNotFound", "OutOfVocabulary", "saved"}
        /\ (ArtistPresent /\ model.kind = "ok") =>
              (pc = "saved" /\ result # None /\ out_files # {})

\* C2: once the loop of calc_percentages has handled every song, the value
\* it returns is the number of songs with a match over the number of songs
\* of the artist subset.
C2_PercentageIsTallyOverSubset ==
    (pc \in {"NameError", "saved"}) =>
        /\ result # None
        /\ result = [num |-> Cardinality(MatchedSongs),
                     den |-> Len(FilterRows(df, artist))]

\* C3: the percentage of the aggregation stage lies in [0, 1], is 1 exactly
\* when every song of the subset has a match and 0 exactly when none has.
C3_PercentageInUnitInterval ==
    (pc \in {"NameError", "saved"}) =>
        /\ result # None
        /\ 0 <= result.num /\ result.num <= result.den /\ result.den > 0
        /\ (result.num = result.den) <=> (MatchedSongs = 1..Len(cleaned_text))
        /\ (result.num = 0) <=> (MatchedSongs = {})

\* C4: what find_word_matches returns is non-negative and is the sum, over
\* the entries of the list with their multiplicity, of the whole-word
\* occurrences of the entry in the song.
C4_CountIsSumOfWholeWordOccurrences ==
    (pc = "matched") =>
        /\ word_count >= 0
        /\ word_count = SumOccurrences(m_song, m_words)

\* C5: the run ends in ArtistNotFound exactly when no row of the catalog has
\* the requested artist, case-sensitively; it then has normalized no song,
\* has not queried the provider, has written nothing and takes no more step.
C5_ArtistNotFoundIffNoExactRow ==
    /\ (pc # "query_search") => ((pc = "ArtistNotFound") <=> ~ArtistPresent)
    /\ (pc = "ArtistNotFound") =>
          /\ cleaned_text = <<>>
          /\ provider_calls = 0
          /\ out_files = {}
          /\ result = None
          /\ stdout.names = artist
          /\ ~ENABLED Next

\* C5, witness: ArtistNotFound although a row has the artist in another case.
C5_Witness ==
    /\ pc = "ArtistNotFound"
    /\ \E k \in 1..Len(df) : df[k].artist # artist /\ Lower(df[k].artist) = Lower(artist)

\* C6: whatever the provider raises, the run ends in OutOfVocabulary, with
\* no song matched, no percentage, nothing written and one lookup made; no
\* run makes a second lookup.
C6_ProviderFailureIsOutOfVocabulary ==
    /\ provider_calls <= 1
    /\ (provider_calls = 1 /\ model.kind # "ok") => pc = "OutOfVocabulary"
    /\ (pc = "OutOfVocabulary") =>
          /\ model.kind # "ok"
          /\ provider_calls = 1
          /\ song_i = 0
          /\ texts_w_words = 0
          /\ result = None
          /\ out_files = {}
          /\ ~ENABLED Next

\* C6, witness: OutOfVocabulary after an error other than a missing key,
\* with songs of the artist waiting to be matched.
C6_Witness ==
    /\ pc = "OutOfVocabulary"
    /\ model.kind = "RuntimeError"
    /\ Len(cleaned_text) > 0

\* C7: normalizing a normalized text changes nothing.
C7_NormalizeIdempotent == (pc = "preprocessed twice") => twice = once

\* C7, witness: a raw text that the first normalization changed and did not
\* empty, normalized twice.
C7_Witness ==
    /\ pc = "preprocessed twice"
    /\ once # raw
    /\ once # <<>>
    /\ Len(once) < Len(raw)

\* C8: the expansion list is the provider's neighbour words in their order,
\* then the search term; it has at most Topn + 1 entries.
C8_ExpansionIsNeighboursThenTerm ==
    (pc \in {"for song", "re.error", "NameError"}) =>
        LET n == Min(Len(model.ranking), Topn) IN
        /\ Len(similar_words_tolist) = n + 1
        /\ \A k \in 1..n : similar_words_tolist[k] = model.ranking[k][1]
        /\ similar_words_tolist[n + 1] = search_term
        /\ Len(similar_words_tolist) <= Topn + 1

\* C8, witness: a provider holding more than Topn neighbours, its list cut
\* to Topn words and the search term, and a song already matched against it.
C8_Witness ==
    /\ pc = "for song"
    /\ Len(model.ranking) > Topn
    /\ Len(similar_words_tolist) = Topn + 1
    /\ song_i > 0

\* C9: for the four songs of TestArtist, the term "love" and the neighbours
\* adore and cherish, the run writes "50.0% of TestArtist's songs contain
\* words related to 'love'" to the file named TestArtist_love.
C9_EndToEnd ==
    (/\ Terminated
     /\ df = TestCatalog
     /\ artist = TestArtist
     /\ search_term = love
     /\ model = Ranking(ShortRanking)) =>
        out_files = {[path |-> ExpectedName, content |-> ExpectedDisplay]}

SaveResultExample ==
    save_result([num |-> 2, den |-> 4], TestArtist, love)
        = [path |-> ExpectedName, content |-> ExpectedDisplay]

====
